---- MODULE Spec2Model ----
(***************************************************************************)
(* Model of chimestock: Item (one tracked page) and Store (the polling     *)
(* coordinator) of src/chimestock/chimestock.py.                           *)
(*                                                                         *)
(* Python values are represented as follows.  A str used as an address is  *)
(* a sequence of characters, a page text is a sequence of words, None is   *)
(* the distinguished sequence PyNone, and the three values of Item.stock   *)
(* (None, True, False) are the strings "None", "True", "False".            *)
(***************************************************************************)
EXTENDS Integers, Sequences, FiniteSets, TLC

\* ------------------------------------------------------------------ bounds
MaxUrls == 2
MaxArgs == 2

UrlNames == <<"a", "b", "c", "d">>
Urls == {UrlNames[i] : i \in 1..MaxUrls}
NotAStr == "#int"
UrlArgs == Urls \cup {NotAStr}
ArgLists == UNION {[1..n -> UrlArgs] : n \in 0..MaxArgs}

\* ------------------------------------------------------------ python values
PyNone == <<"None">>
S == <<"s">>
R == <<"r">>

PyBool(b) == IF b THEN "True" ELSE "False"
Falsy(s) == s = PyNone \/ s = <<>>
IsStr(u) == u # NotAStr

RECURSIVE lstrip(_)
lstrip(s) == IF s # <<>> /\ Head(s) = " " THEN lstrip(Tail(s)) ELSE s

RECURSIVE rstrip(_)
rstrip(s) ==
  IF s # <<>> /\ s[Len(s)] = " " THEN rstrip(SubSeq(s, 1, Len(s) - 1)) ELSE s

Strip(s) == rstrip(lstrip(s))

\* ------------------------------------------------------------------- pages
Texts == { <<>>,
           <<"Out", "of", "stock">>,
           <<"Now", "In", "stock">> }
Response == [ok : {TRUE}, text : Texts] \cup {[ok |-> FALSE, text |-> <<>>]}

\* re.search(pattern, text): the pattern occurs somewhere in the text
Search(pattern, text) ==
  \E k \in 0..(Len(text) - Len(pattern)) :
     \A j \in 1..Len(pattern) : text[k + j] = pattern[j]

\* -------------------------------------------------------------------- Item
stockString == <<"In", "stock">>

ItemInit(url, id) ==
  [id |-> id, url |-> url, stock |-> "None", stockChanged |-> FALSE]

\* the exception Item.update raises on this response, "none" if it succeeds
UpdateError(resp) ==
  IF ~resp.ok THEN "FetchError"
  ELSE IF resp.text = <<>> THEN "ValueError"
  ELSE "none"

\* Item.update flagging only the change from out of stock to in stock
ItemUpdate_RisingOnly(item, resp) ==
  LET stock == PyBool(Search(stockString, resp.text))
  IN [item EXCEPT !.stockChanged = (stock = "True" /\ item.stock = "False"),
                  !.stock = stock]

\* Item.update without the test that the previous stock is known
ItemUpdate_NoKnownTest(item, resp) ==
  LET stock == PyBool(Search(stockString, resp.text))
  IN [item EXCEPT !.stockChanged = (stock # item.stock),
                  !.stock = stock]

\* Item.update accumulating the flag instead of recomputing it
ItemUpdate_Sticky(item, resp) ==
  LET stock == PyBool(Search(stockString, resp.text))
  IN [item EXCEPT !.stockChanged = item.stockChanged \/
                      (stock # item.stock /\ item.stock # "None"),
                  !.stock = stock]

ItemUpdate(item, resp) ==
  LET stock == PyBool(Search(stockString, resp.text))
  IN [item EXCEPT !.stockChanged = (stock # item.stock /\ item.stock # "None"),
                  !.stock = stock]

ItemStr(item) ==
  <<"Item is ", IF item.stock = "True" THEN "in" ELSE "out of", " stock\n",
    item.url, "\n">>

\* ------------------------------------------------------------------- state
\* pc         where the program is: "new" (Store not yet constructed),
\*            "config" (constructed, loop not started), "check" (top of the
\*            while loop), "send" (about to call send_email), "sleep",
\*            "dead" (the check task ended with an exception), "aborted"
\*            (the constructor raised)
\* kwargs     the arguments and console input of the pending constructor call
\* call       the most recent call of a public method and its url arguments
\* responses  the HTTP responses received by the most recent operation
\* raised     the exception the most recent operation ended with
\* mail       the message handed to sendmail in the current cycle
\* sent       what send_email returned in the current cycle
VARIABLES pc, kwargs, call, sender, recipient, debug, items, newInStock,
          totalInStock, responses, raised, mail, sent

vars == <<pc, kwargs, call, sender, recipient, debug, items, newInStock,
          totalInStock, responses, raised, mail, sent>>

NoCall == [port_is_int |-> TRUE, sender |-> PyNone, sender_input |-> <<>>,
           recipient |-> PyNone, recipient_input |-> <<>>, debug |-> FALSE,
           called |-> FALSE]
NoMail == [to |-> PyNone, from |-> PyNone, subject |-> <<>>, body |-> {}]
NoResponses == [u \in {} |-> [ok |-> FALSE, text |-> <<>>]]

Calls == [port_is_int : BOOLEAN,
          sender : {PyNone, S},
          sender_input : {<<>>, <<" ", "s">>},
          recipient : {PyNone, <<>>, R, S},
          recipient_input : {<<" ">>, <<" ", "r", " ">>},
          debug : BOOLEAN,
          called : {TRUE}]

Init ==
  /\ pc = "new"
  /\ kwargs \in Calls
  /\ call = [op |-> "Store", urls |-> <<>>]
  /\ sender = PyNone
  /\ recipient = PyNone
  /\ debug = FALSE
  /\ items = {}
  /\ newInStock = 0
  /\ totalInStock = 0
  /\ responses = NoResponses
  /\ raised = "none"
  /\ mail = NoMail
  /\ sent = "none"

\* -------------------------------------------------------- Store.__init__
StoreInit ==
  /\ pc = "new"
  /\ kwargs' = NoCall
  /\ debug' = kwargs.debug
  /\ IF ~kwargs.port_is_int
       THEN /\ pc' = "aborted"
            /\ raised' = "AssertionError"
            /\ UNCHANGED <<sender, recipient>>
       ELSE LET snd == IF Falsy(kwargs.sender)
                         THEN Strip(kwargs.sender_input)
                         ELSE kwargs.sender
                prompted == Strip(kwargs.recipient_input)
            IN /\ sender' = snd
               /\ recipient' = IF kwargs.recipient = PyNone
                                 THEN IF Falsy(prompted) THEN snd ELSE prompted
                                 ELSE snd
               /\ pc' = "config"
               /\ raised' = "none"
  /\ UNCHANGED <<call, items, newInStock, totalInStock, responses, mail,
                 sent>>

Range(f) == {f[k] : k \in DOMAIN f}

\* ------------------------------------------------------------- Store.add
TrackedUrls(its) == {i.url : i \in its}

\* identity of a newly allocated Item object: objects are told apart by
\* their url and, among objects of one url, by the first number not in use
FreshId(its, url) ==
  LET used == {i.id : i \in {j \in its : j.url = url}} IN
    CHOOSE n \in 0..Cardinality(used) :
       /\ n \notin used
       /\ \A m \in 0..(n - 1) : m \in used

\* Store.add without the test that the url is not yet tracked
RECURSIVE AddLoop_NoDedupe(_, _, _, _)
AddLoop_NoDedupe(its, urls, rs, got) ==
  IF urls = <<>> THEN [items |-> its, fetched |-> got, raised |-> "none"]
  ELSE LET url == Head(urls) IN
    IF ~IsStr(url)
      THEN [items |-> its, fetched |-> got, raised |-> "AssertionError"]
    ELSE LET new == ItemInit(url, FreshId(its, url)) IN
      IF UpdateError(rs[url]) # "none"
        THEN [items |-> its, fetched |-> got \cup {url},
              raised |-> UpdateError(rs[url])]
        ELSE AddLoop_NoDedupe(its \cup {ItemUpdate(new, rs[url])}, Tail(urls),
                              rs, got \cup {url})

\* Store.add catching the failure of a first refresh and going on with the
\* next url
RECURSIVE AddLoop_SkipFailed(_, _, _, _)
AddLoop_SkipFailed(its, urls, rs, got) ==
  IF urls = <<>> THEN [items |-> its, fetched |-> got, raised |-> "none"]
  ELSE LET url == Head(urls) IN
    IF ~IsStr(url)
      THEN [items |-> its, fetched |-> got, raised |-> "AssertionError"]
    ELSE IF url \in TrackedUrls(its)
      THEN AddLoop_SkipFailed(its, Tail(urls), rs, got)
    ELSE LET new == ItemInit(url, FreshId(its, url)) IN
      IF UpdateError(rs[url]) # "none"
        THEN AddLoop_SkipFailed(its, Tail(urls), rs, got \cup {url})
        ELSE AddLoop_SkipFailed(its \cup {ItemUpdate(new, rs[url])},
                                Tail(urls), rs, got \cup {url})

\* Store.add inserting the new Item before its first refresh
RECURSIVE AddLoop_InsertFirst(_, _, _, _)
AddLoop_InsertFirst(its, urls, rs, got) ==
  IF urls = <<>> THEN [items |-> its, fetched |-> got, raised |-> "none"]
  ELSE LET url == Head(urls) IN
    IF ~IsStr(url)
      THEN [items |-> its, fetched |-> got, raised |-> "AssertionError"]
    ELSE IF url \in TrackedUrls(its)
      THEN AddLoop_InsertFirst(its, Tail(urls), rs, got)
    ELSE LET new == ItemInit(url, FreshId(its, url)) IN
      IF UpdateError(rs[url]) # "none"
        THEN [items |-> its \cup {new}, fetched |-> got \cup {url},
              raised |-> UpdateError(rs[url])]
        ELSE AddLoop_InsertFirst(its \cup {ItemUpdate(new, rs[url])},
                                 Tail(urls), rs, got \cup {url})

\* the for loop of Store.add over the remaining urls; rs gives the response
\* each url would be answered with, got is the set of urls fetched so far
RECURSIVE AddLoop(_, _, _, _)
AddLoop(its, urls, rs, got) ==
  IF urls = <<>> THEN [items |-> its, fetched |-> got, raised |-> "none"]
  ELSE LET url == Head(urls) IN
    IF ~IsStr(url)
      THEN [items |-> its, fetched |-> got, raised |-> "AssertionError"]
    ELSE IF url \in TrackedUrls(its)
      THEN AddLoop(its, Tail(urls), rs, got)
    ELSE LET new == ItemInit(url, FreshId(its, url)) IN
      IF UpdateError(rs[url]) # "none"
        THEN [items |-> its, fetched |-> got \cup {url},
              raised |-> UpdateError(rs[url])]
        ELSE AddLoop(its \cup {ItemUpdate(new, rs[url])}, Tail(urls), rs,
                     got \cup {url})

Add ==
  /\ pc = "config"
  /\ \E urls \in ArgLists :
     \E rs \in [Range(urls) \cap Urls -> Response] :
       LET r == AddLoop(items, urls, rs, {}) IN
         /\ call' = [op |-> "add", urls |-> urls]
         /\ items' = r.items
         /\ responses' = [u \in r.fetched |-> rs[u]]
         /\ raised' = r.raised
  /\ UNCHANGED <<pc, kwargs, sender, recipient, debug, newInStock,
                 totalInStock, mail, sent>>

\* ---------------------------------------------------------- Store.remove
\* Store.remove dropping only the items of the first url given
Remove_OnlyFirst ==
  /\ pc = "config"
  /\ \E urls \in ArgLists :
       /\ call' = [op |-> "remove", urls |-> urls]
       /\ IF \E k \in DOMAIN urls : ~IsStr(urls[k])
            THEN /\ raised' = "AssertionError"
                 /\ items' = items
            ELSE /\ raised' = "none"
                 /\ items' = {i \in items :
                                urls = <<>> \/ i.url # Head(urls)}
  /\ responses' = NoResponses
  /\ UNCHANGED <<pc, kwargs, sender, recipient, debug, newInStock,
                 totalInStock, mail, sent>>

Remove ==
  /\ pc = "config"
  /\ \E urls \in ArgLists :
       /\ call' = [op |-> "remove", urls |-> urls]
       /\ IF \E k \in DOMAIN urls : ~IsStr(urls[k])
            THEN /\ raised' = "AssertionError"
                 /\ items' = items
            ELSE /\ raised' = "none"
                 /\ items' = {i \in items : i.url \notin Range(urls)}
  /\ responses' = NoResponses
  /\ UNCHANGED <<pc, kwargs, sender, recipient, debug, newInStock,
                 totalInStock, mail, sent>>

\* ---------------------------------------------------------- Store.update
\* the orders in which a set can be iterated
Orders(its) ==
  {o \in [1..Cardinality(its) -> its] : Range(o) = its}

\* sum(item.stockChanged ...) and sum(item.stock ...) over the items
CountChanged(its) == Cardinality({i \in its : i.stockChanged})
CountInStock(its) == Cardinality({i \in its : i.stock = "True"})

\* the for loop of Store.update catching the failure of an item and going
\* on with the next one
RECURSIVE UpdateLoop_SkipFailed(_, _, _, _)
UpdateLoop_SkipFailed(its, order, rs, got) ==
  IF order = <<>> THEN [items |-> its, fetched |-> got, raised |-> "none"]
  ELSE LET item == Head(order) IN
    IF UpdateError(rs[item.url]) # "none"
      THEN UpdateLoop_SkipFailed(its, Tail(order), rs, got \cup {item.url})
      ELSE UpdateLoop_SkipFailed(
             (its \ {item}) \cup {ItemUpdate(item, rs[item.url])},
             Tail(order), rs, got \cup {item.url})

\* the for loop of Store.update where a refresh clears the item's fields
\* before it fetches, so that a failed refresh leaves them cleared
RECURSIVE UpdateLoop_ClearOnFailure(_, _, _, _)
UpdateLoop_ClearOnFailure(its, order, rs, got) ==
  IF order = <<>> THEN [items |-> its, fetched |-> got, raised |-> "none"]
  ELSE LET item == Head(order) IN
    IF UpdateError(rs[item.url]) # "none"
      THEN [items |-> (its \ {item}) \cup
                        {[item EXCEPT !.stock = "None",
                                      !.stockChanged = FALSE]},
            fetched |-> got \cup {item.url},
            raised |-> UpdateError(rs[item.url])]
      ELSE UpdateLoop_ClearOnFailure(
             (its \ {item}) \cup {ItemUpdate(item, rs[item.url])},
             Tail(order), rs, got \cup {item.url})

\* the for loop of Store.update over the items still to refresh
RECURSIVE UpdateLoop(_, _, _, _)
UpdateLoop(its, order, rs, got) ==
  IF order = <<>> THEN [items |-> its, fetched |-> got, raised |-> "none"]
  ELSE LET item == Head(order) IN
    IF UpdateError(rs[item.url]) # "none"
      THEN [items |-> its, fetched |-> got \cup {item.url},
            raised |-> UpdateError(rs[item.url])]
      ELSE UpdateLoop((its \ {item}) \cup {ItemUpdate(item, rs[item.url])},
                      Tail(order), rs, got \cup {item.url})

\* Store.update counting as new only the items that came into stock
StoreUpdate_NewMeansInStock(its, order, rs, dbg, oldNew, oldTotal) ==
  LET r == UpdateLoop(its, order, rs, {}) IN
    IF r.raised # "none"
      THEN [items |-> r.items, fetched |-> r.fetched, raised |-> r.raised,
            newInStock |-> oldNew, totalInStock |-> oldTotal]
    ELSE IF dbg
      THEN [items |-> r.items, fetched |-> r.fetched, raised |-> "none",
            newInStock |-> Cardinality(r.items),
            totalInStock |-> Cardinality(r.items)]
      ELSE [items |-> r.items, fetched |-> r.fetched, raised |-> "none",
            newInStock |->
              Cardinality({i \in r.items : i.stockChanged /\ i.stock = "True"}),
            totalInStock |-> CountInStock(r.items)]

\* Store.update without the debug branch
StoreUpdate_IgnoreDebug(its, order, rs, dbg, oldNew, oldTotal) ==
  LET r == UpdateLoop(its, order, rs, {}) IN
    IF r.raised # "none"
      THEN [items |-> r.items, fetched |-> r.fetched, raised |-> r.raised,
            newInStock |-> oldNew, totalInStock |-> oldTotal]
      ELSE [items |-> r.items, fetched |-> r.fetched, raised |-> "none",
            newInStock |-> CountChanged(r.items),
            totalInStock |-> CountInStock(r.items)]

\* Store.update adding the changes of this cycle to the previous count
StoreUpdate_Accumulate(its, order, rs, dbg, oldNew, oldTotal) ==
  LET r == UpdateLoop(its, order, rs, {}) IN
    IF r.raised # "none"
      THEN [items |-> r.items, fetched |-> r.fetched, raised |-> r.raised,
            newInStock |-> oldNew, totalInStock |-> oldTotal]
    ELSE IF dbg
      THEN [items |-> r.items, fetched |-> r.fetched, raised |-> "none",
            newInStock |-> Cardinality(r.items),
            totalInStock |-> Cardinality(r.items)]
      ELSE [items |-> r.items, fetched |-> r.fetched, raised |-> "none",
            newInStock |-> oldNew + CountChanged(r.items),
            totalInStock |-> CountInStock(r.items)]

\* Store.update: the refreshed items and the recomputed counts, or the
\* exception that left the counts as they were
StoreUpdate(its, order, rs, dbg, oldNew, oldTotal) ==
  LET r == UpdateLoop(its, order, rs, {}) IN
    IF r.raised # "none"
      THEN [items |-> r.items, fetched |-> r.fetched, raised |-> r.raised,
            newInStock |-> oldNew, totalInStock |-> oldTotal]
    ELSE IF dbg
      THEN [items |-> r.items, fetched |-> r.fetched, raised |-> "none",
            newInStock |-> Cardinality(r.items),
            totalInStock |-> Cardinality(r.items)]
      ELSE [items |-> r.items, fetched |-> r.fetched, raised |-> "none",
            newInStock |-> CountChanged(r.items),
            totalInStock |-> CountInStock(r.items)]

\* ------------------------------------------------- Store.run, Store.check
Run ==
  /\ pc = "config"
  /\ \E minutes_is_number \in BOOLEAN :
       IF minutes_is_number
         THEN pc' = "check" /\ raised' = "none"
         ELSE pc' = "dead" /\ raised' = "AssertionError"
  /\ call' = [op |-> "run", urls |-> <<>>]
  /\ responses' = NoResponses
  /\ UNCHANGED <<kwargs, sender, recipient, debug, items, newInStock,
                 totalInStock, mail, sent>>

\* one pass of the while loop up to the call of send_email or of sleep
CheckIteration ==
  /\ pc = "check"
  /\ \E rs \in [TrackedUrls(items) -> Response], order \in Orders(items) :
       LET r == StoreUpdate(items, order, rs, debug, newInStock, totalInStock)
       IN /\ items' = r.items
          /\ responses' = [u \in r.fetched |-> rs[u]]
          /\ raised' = r.raised
          /\ newInStock' = r.newInStock
          /\ totalInStock' = r.totalInStock
          /\ pc' = IF r.raised # "none" THEN "dead"
                   ELSE IF r.newInStock # 0 THEN "send" ELSE "sleep"
  /\ mail' = NoMail
  /\ sent' = "none"
  /\ UNCHANGED <<kwargs, call, sender, recipient, debug>>

\* the loop of Store.check returning after its first pass
Sleep_ThenReturn ==
  /\ pc = "sleep"
  /\ pc' = "done"
  /\ UNCHANGED <<kwargs, call, sender, recipient, debug, items, newInStock,
                 totalInStock, responses, raised, mail, sent>>

Sleep ==
  /\ pc = "sleep"
  /\ pc' = "check"
  /\ UNCHANGED <<kwargs, call, sender, recipient, debug, items, newInStock,
                 totalInStock, responses, raised, mail, sent>>

\* ------------------------------------------------------- Store.send_email
email_subject ==
  <<"(", newInStock, " new, ", totalInStock, " total) items in stock">>

\* email_message listing every item whether or not debug is set
email_message_AllItems ==
  {ItemStr(i) : i \in items}

email_message ==
  {ItemStr(i) : i \in IF debug THEN items ELSE {j \in items : j.stockChanged}}

SmtpSteps == {"connect", "ehlo", "starttls", "login", "sendmail"}
BeforeTry == {"connect", "ehlo", "starttls", "login"}

\* send_email followed by the next pass of the loop without the sleep
send_email_NoSleep ==
  /\ pc = "send"
  /\ \E fail_at \in SmtpSteps \cup {"nowhere"}, quit_fails \in BOOLEAN :
       IF fail_at \in BeforeTry
         THEN /\ pc' = "dead"
              /\ raised' = "SMTPException"
              /\ UNCHANGED <<mail, sent>>
         ELSE /\ mail' = [to |-> recipient, from |-> sender,
                          subject |-> email_subject, body |-> email_message]
              /\ IF quit_fails
                   THEN /\ pc' = "dead"
                        /\ raised' = "SMTPException"
                        /\ UNCHANGED sent
                   ELSE /\ pc' = "check"
                        /\ raised' = "none"
                        /\ sent' = PyBool(fail_at # "sendmail")
  /\ UNCHANGED <<kwargs, call, sender, recipient, debug, items, newInStock,
                 totalInStock, responses>>

send_email ==
  /\ pc = "send"
  /\ \E fail_at \in SmtpSteps \cup {"nowhere"}, quit_fails \in BOOLEAN :
       IF fail_at \in BeforeTry
         THEN /\ pc' = "dead"
              /\ raised' = "SMTPException"
              /\ UNCHANGED <<mail, sent>>
         ELSE /\ mail' = [to |-> recipient, from |-> sender,
                          subject |-> email_subject, body |-> email_message]
              /\ IF quit_fails
                   THEN /\ pc' = "dead"
                        /\ raised' = "SMTPException"
                        /\ UNCHANGED sent
                   ELSE /\ pc' = "sleep"
                        /\ raised' = "none"
                        /\ sent' = PyBool(fail_at # "sendmail")
  /\ UNCHANGED <<kwargs, call, sender, recipient, debug, items, newInStock,
                 totalInStock, responses>>

Next ==
  \/ StoreInit
  \/ Add
  \/ Remove
  \/ Run
  \/ CheckIteration
  \/ send_email
  \/ Sleep

Spec == Init /\ [][Next]_vars

\* the event loop runs every task that is ready
FairSpec ==
  Spec /\ WF_vars(CheckIteration) /\ WF_vars(send_email) /\ WF_vars(Sleep)

\* ------------------------------------------------------------- properties
\* whether the page received for this url carries the marker
Marker(rsp, url) == PyBool(Search(stockString, rsp[url].text))
Refreshed(rsp, url) == url \in DOMAIN rsp /\ UpdateError(rsp[url]) = "none"

\* C1: in a poll cycle, which refreshes items that have been refreshed
\* before, every item whose refresh succeeds ends with stockChanged true
\* exactly when the marker presence of the page just received differs from
\* the stock value the previous refresh stored; the same presence twice in a
\* row leaves stockChanged false.
C1_ChangedIffDiffers ==
  [][pc = "check" =>
       \A i \in items :
          Refreshed(responses', i.url) =>
             /\ i.stock # "None"
             /\ \E j \in items' :
                   /\ j.id = i.id /\ j.url = i.url
                   /\ j.stock = Marker(responses', i.url)
                   /\ j.stockChanged = (Marker(responses', i.url) # i.stock)]_vars

C1_Witness ==
  /\ pc = "send"
  /\ ~debug
  /\ \E i, j \in items :
        /\ i.stockChanged /\ Refreshed(responses, i.url)
        /\ ~j.stockChanged /\ Refreshed(responses, j.url)

\* C2: the first successful refresh of an item, the one add performs on the
\* new Item whose stock is None, leaves stockChanged false whether or not
\* the page carries the marker, and sets stock to the marker presence.
C2_FirstRefreshNoChange ==
  [][pc = "config" =>
       \A j \in items' \ items :
          /\ ItemInit(j.url, j.id).stock = "None"
          /\ Refreshed(responses', j.url)
          /\ j.stockChanged = FALSE
          /\ j.stock = Marker(responses', j.url)
          /\ j.stock \in {"True", "False"}]_vars

C2_Witness ==
  /\ pc = "config"
  /\ call.op = "add"
  /\ \E i, j \in items :
        /\ Refreshed(responses, i.url) /\ i.stock = "True"
        /\ Refreshed(responses, j.url) /\ j.stock = "False"

\* C3: without debug, a completed poll cycle goes on to send_email exactly
\* when some tracked item's marker presence in this cycle differs from its
\* previously known stock, in either direction; add, which fetches the
\* baseline, never leads to send_email and never hands over a message.
C3_NotifyIffChange ==
  [][/\ (pc = "check" /\ pc' \in {"send", "sleep"} /\ ~debug) =>
          (pc' = "send" <=>
             \E i \in items : Marker(responses', i.url) # i.stock)
     /\ (pc = "config" /\ call'.op = "add") =>
          (pc' = "config" /\ mail' = NoMail /\ sent' = "none"
           /\ newInStock' = 0)]_vars

C3_Witness ==
  /\ pc = "send"
  /\ ~debug
  /\ \E i \in items : i.stockChanged /\ i.stock = "False"
  /\ \A i \in items : i.stock = "False"

\* C4: the item set never holds two items of one url, whatever add and
\* remove calls were made; an add call fetches no url that is already
\* tracked and leaves every existing item in the set as it was, and the
\* items it inserts are those of the urls it fetched.
C4_NoDuplicateUrl ==
  /\ [](\A i, j \in items : i.url = j.url => i = j)
  /\ [][(pc = "config" /\ call'.op = "add") =>
          /\ DOMAIN responses' \cap TrackedUrls(items) = {}
          /\ items \subseteq items'
          /\ \A j \in items' \ items : j.url \in DOMAIN responses']_vars

C4_Witness ==
  /\ pc = "config"
  /\ call.op = "add"
  /\ raised = "none"
  /\ \E u \in Range(call.urls) :
        u \in TrackedUrls(items) /\ u \notin DOMAIN responses
  /\ \E v \in Range(call.urls) : v \in DOMAIN responses

\* C5: a failure of any SMTP step while sending is recovered locally:
\* send_email returns (True or False) instead of raising and the loop goes
\* on to sleep.
C5_SmtpFailureRecovered ==
  [][pc = "send" =>
       /\ pc' = "sleep"
       /\ raised' = "none"
       /\ sent' \in {"True", "False"}]_vars

\* C6 as stated: once started the loop never stops, so every poll cycle
\* that starts is completed and comes to the notification or the sleep that
\* precedes the next cycle.
C6_LoopNeverStops ==
  (pc = "check") ~> (pc = "send" \/ pc = "sleep")

\* C6 amended: once started the loop has no exit of its own; every poll
\* cycle either ends the loop with the exception that escaped it or reaches
\* its sleep, and every sleep is followed by another poll cycle.
C6_LoopStopsOnlyByException ==
  /\ (pc = "check") ~> (pc = "sleep" \/ pc = "dead")
  /\ (pc = "sleep") ~> (pc = "check")
  /\ [](pc \in {"new", "config", "aborted", "check", "send", "sleep", "dead"})
  /\ [](pc = "dead" =>
          raised \in {"AssertionError", "FetchError", "ValueError",
                      "SMTPException"})

C6_Witness ==
  /\ pc = "check"
  /\ sent \in {"True", "False"}
  /\ mail # NoMail

\* C7: when the refresh of an item fails in a poll cycle the failure is not
\* caught: the cycle ends the loop, the items not yet reached are neither
\* fetched nor changed, the failing item is unchanged, the counts are not
\* recomputed, no message is sent, and no later cycle starts.
C7_FetchFailureEndsLoop ==
  [][/\ pc = "check" =>
          LET failed == {u \in DOMAIN responses' :
                           UpdateError(responses'[u]) # "none"}
          IN /\ (failed # {}) <=> (pc' = "dead")
             /\ pc' = "dead" =>
                  /\ Cardinality(failed) = 1
                  /\ raised' \in {"FetchError", "ValueError"}
                  /\ newInStock' = newInStock
                  /\ totalInStock' = totalInStock
                  /\ mail' = NoMail
                  /\ sent' = "none"
                  /\ \A i \in items :
                        (i.url \notin DOMAIN responses' \/ i.url \in failed)
                           => i \in items'
     /\ pc = "dead" => pc' = "dead"]_vars

C7_Witness ==
  /\ pc = "dead"
  /\ raised \in {"FetchError", "ValueError"}
  /\ \E i, j \in items :
        /\ i.url \notin DOMAIN responses
        /\ j.url \in DOMAIN responses
        /\ UpdateError(responses[j.url]) # "none"

\* C8: with debug, every completed poll cycle leaves newInStock and
\* totalInStock equal to the number of tracked items whatever their stock
\* and stockChanged, and goes on to send_email exactly when an item is
\* tracked.
C8_DebugCountsAll ==
  [][(debug /\ pc = "check" /\ pc' \in {"send", "sleep"}) =>
       /\ newInStock' = Cardinality(items')
       /\ totalInStock' = Cardinality(items')
       /\ (pc' = "send") <=> (items' # {})]_vars

C8_Witness ==
  /\ debug
  /\ pc = "send"
  /\ \E i \in items : ~i.stockChanged /\ i.stock = "False"

\* C9 as stated: without debug, after a completed poll every item counted
\* in newInStock is in stock, hence newInStock <= totalInStock.
C9_NewAreInStock ==
  (~debug /\ pc \in {"send", "sleep"}) =>
     /\ \A i \in items : i.stockChanged => i.stock = "True"
     /\ newInStock <= totalInStock

\* C9 amended: without debug, after a completed poll newInStock is the
\* number of items whose stock changed in that poll, in either direction,
\* hence newInStock is at most the number of tracked items.
C9_NewAreChanged ==
  (~debug /\ pc \in {"send", "sleep"}) =>
     /\ newInStock = Cardinality({i \in items : i.stockChanged})
     /\ newInStock <= Cardinality(items)

C9_Witness ==
  /\ ~debug
  /\ pc = "send"
  /\ newInStock > totalInStock
  /\ \E i \in items : i.stockChanged /\ i.stock = "False"

\* C10: a Store constructed with a non-empty recipient different from the
\* sender addresses its notifications to that recipient; with a recipient
\* that is absent (and a blank answer to the prompt) or empty it addresses
\* them to the sender.
C10_SuppliedRecipientUsed ==
  [][(pc = "new" /\ pc' = "config") =>
       /\ (~Falsy(kwargs.recipient) /\ kwargs.recipient # sender') =>
             recipient' = kwargs.recipient
       /\ kwargs.recipient = <<>> => recipient' = sender'
       /\ (kwargs.recipient = PyNone /\ Strip(kwargs.recipient_input) = <<>>)
             => recipient' = sender']_vars

\* C11: every configuration error fails fast with an AssertionError raised
\* to the caller: a port that is not an int aborts the constructor, an
\* empty sender is never accepted, and an AssertionError after construction
\* (a url that is not a str, an interval that is not a number) comes before
\* any page is fetched, any item is added and any poll task is started.
C11_ConfigErrorsFailFast ==
  /\ [](pc \notin {"new", "aborted"} => sender # <<>>)
  /\ [][(pc = "new" /\ ~kwargs.port_is_int) =>
          (pc' = "aborted" /\ raised' = "AssertionError")]_vars
  /\ [][(pc = "config" /\ raised' = "AssertionError") =>
          /\ pc' = "config"
          /\ items' = items
          /\ responses' = NoResponses]_vars

\* C12: without debug, a completed poll cycle leaves newInStock equal to
\* the number of items whose marker presence in this cycle differs from the
\* stock they had before it and totalInStock equal to the number of items
\* whose page carries the marker now; an item flagged by an earlier cycle
\* whose stock stays the same is no longer flagged nor counted.
C12_CountsOfThisPollOnly ==
  [][(~debug /\ pc = "check" /\ pc' \in {"send", "sleep"}) =>
       /\ newInStock' =
            Cardinality({i \in items : Marker(responses', i.url) # i.stock})
       /\ totalInStock' =
            Cardinality({i \in items : Marker(responses', i.url) = "True"})
       /\ \A i \in items :
            (i.stockChanged /\ Marker(responses', i.url) = i.stock) =>
               /\ \A j \in items' : j.url = i.url => ~j.stockChanged
               /\ newInStock' <= Cardinality(items) - 1]_vars

C12_Witness ==
  /\ ~debug
  /\ pc = "send"
  /\ newInStock = 1
  /\ totalInStock = 1
  /\ \E i, j \in items :
        /\ i.stockChanged /\ i.stock = "False"
        /\ ~j.stockChanged /\ j.stock = "True"

\* C13: every item of the set has a known stock ("True" or "False", never
\* "None") in every reachable state; an item enters the set only after its
\* first refresh succeeded, with stockChanged false, and a url whose first
\* refresh failed gets no item.
C13_TrackedItemsKnown ==
  /\ [](\A i \in items : i.stock \in {"True", "False"})
  /\ [][(pc = "config" /\ call'.op = "add") =>
          /\ \A j \in items' \ items :
                ~j.stockChanged /\ Refreshed(responses', j.url)
          /\ \A u \in DOMAIN responses' :
                UpdateError(responses'[u]) # "none" =>
                   u \notin TrackedUrls(items')]_vars

C13_Witness ==
  /\ pc = "config"
  /\ call.op = "add"
  /\ raised \in {"FetchError", "ValueError"}
  /\ items # {}
  /\ \E u \in DOMAIN responses :
        UpdateError(responses[u]) # "none" /\ u \notin TrackedUrls(items)

\* C14: the message handed to sendmail agrees with the poll that caused it:
\* without debug its body lists exactly the tracked items with stockChanged
\* true, each with its url and its stock, the number of lines is the N of
\* the subject and M is the number of items in stock; with debug the body
\* lists every tracked item and N = M = the number of tracked items.
C14_MailMatchesPoll ==
  mail # NoMail =>
    LET listed == {<<line[4], line[2]>> : line \in mail.body}
        shown(its) ==
          {<<i.url, IF i.stock = "True" THEN "in" ELSE "out of">> : i \in its}
        N == mail.subject[2]
        M == mail.subject[4]
    IN /\ Len(mail.subject) = 5
       /\ mail.subject[1] = "(" /\ mail.subject[3] = " new, "
       /\ mail.subject[5] = " total) items in stock"
       /\ ~debug =>
            /\ listed = shown({i \in items : i.stockChanged})
            /\ Cardinality(mail.body) = N
            /\ M = Cardinality({i \in items : i.stock = "True"})
       /\ debug =>
            /\ listed = shown(items)
            /\ N = Cardinality(items)
            /\ M = Cardinality(items)

C14_Witness ==
  /\ mail # NoMail
  /\ ~debug
  /\ Cardinality(items) = 2
  /\ Cardinality(mail.body) = 1
  /\ mail.subject[2] = 1
  /\ mail.subject[4] = 0

\* C15: a refresh whose fetch fails or whose body is empty raises
\* (FetchError or ValueError) and leaves the stock and stockChanged of the
\* item exactly as they were; an item whose stock is known never has
\* stock "None" again.
C15_FailedRefreshKeepsState ==
  /\ [][(pc = "config" \/ pc = "check") =>
          \A u \in DOMAIN responses' :
             UpdateError(responses'[u]) # "none" =>
                /\ raised' = UpdateError(responses'[u])
                /\ raised' =
                     (IF responses'[u].ok THEN "ValueError" ELSE "FetchError")
                /\ \A i \in items : i.url = u => i \in items'
                /\ \A j \in items' : j.url = u => j \in items]_vars
  /\ [][\A i \in items : \A j \in items' :
          (j.url = i.url /\ j.id = i.id /\ i.stock # "None") =>
             j.stock # "None"]_vars

C15_Witness ==
  /\ pc = "dead"
  /\ raised = "ValueError"
  /\ \E i \in items :
        /\ i.url \in DOMAIN responses
        /\ UpdateError(responses[i.url]) = "ValueError"
        /\ i.stockChanged
        /\ i.stock = "True"

\* C16: remove(urls) drops exactly the tracked items whose url is among
\* the urls given (none at all when an argument is not a str and the call
\* raises): every other item stays as it was, an untracked url changes
\* nothing, no page is fetched and the counts are left as they were.
C16_RemoveDropsExactly ==
  [][(pc = "config" /\ call'.op = "remove") =>
       /\ items' \subseteq items
       /\ \A i \in items :
            i \in items' <=>
              (raised' = "AssertionError" \/ i.url \notin Range(call'.urls))
       /\ (Range(call'.urls) \cap TrackedUrls(items) = {}) => items' = items
       /\ responses' = NoResponses
       /\ newInStock' = newInStock
       /\ totalInStock' = totalInStock
       /\ pc' = "config"]_vars

C16_Witness ==
  /\ pc = "config"
  /\ call.op = "remove"
  /\ raised = "none"
  /\ call.urls # <<>>
  /\ items # {}
  /\ TrackedUrls(items) \cap Range(call.urls) = {}

\* C17: one poll cycle runs at a time: the counts are recomputed only by a
\* cycle in which every tracked item was refreshed successfully, send_email
\* is entered only from a cycle that has recomputed the counts, nothing is
\* fetched or refreshed while the cycle sends and sleeps, and the next
\* cycle starts only from the sleep of the previous one (or from run).
C17_OneCycleAtATime ==
  [][/\ (newInStock' # newInStock \/ totalInStock' # totalInStock
         \/ (pc' = "send" /\ pc # "send")) =>
          /\ pc = "check"
          /\ DOMAIN responses' = TrackedUrls(items)
          /\ \A u \in DOMAIN responses' : UpdateError(responses'[u]) = "none"
          /\ newInStock' = IF debug THEN Cardinality(items')
                                    ELSE CountChanged(items')
     /\ (pc' = "send" /\ pc # "send") => newInStock' # 0
     /\ (pc = "send" \/ pc = "sleep") =>
          (responses' = responses /\ items' = items)
     /\ (pc = "send" /\ pc' # "send") => (pc' = "sleep" \/ pc' = "dead")
     /\ (pc' = "check" /\ pc # "check") => (pc = "sleep" \/ pc = "config")
    ]_vars

C17_Witness ==
  /\ pc = "check"
  /\ sent = "False"
  /\ Cardinality(items) = 2
  /\ DOMAIN responses = TrackedUrls(items)

\* C18: when the first refresh of a url fails in an add call, the call ends
\* with that failure (FetchError or ValueError) instead of recovering: the
\* failing url is not tracked, the urls listed before it are tracked with
\* their baseline (known stock, stockChanged false), and a url listed after
\* it is not fetched unless it was also listed up to the failing one.
C18_AddFailurePropagates ==
  (pc = "config" /\ call.op = "add") =>
    LET failed == {u \in DOMAIN responses :
                     UpdateError(responses[u]) # "none"}
        urls == call.urls
    IN /\ (failed # {}) <=> (raised \in {"FetchError", "ValueError"})
       /\ failed # {} =>
            \E k \in DOMAIN urls :
               /\ failed = {urls[k]}
               /\ raised = UpdateError(responses[urls[k]])
               /\ urls[k] \notin TrackedUrls(items)
               /\ \A m \in 1..(k - 1) :
                     \E i \in items :
                        /\ i.url = urls[m]
                        /\ i.stock \in {"True", "False"}
                        /\ ~i.stockChanged
               /\ \A j \in (k + 1)..Len(urls) :
                     urls[j] \in DOMAIN responses =>
                        \E m \in 1..k : urls[m] = urls[j]

C18_Witness ==
  /\ pc = "config"
  /\ call.op = "add"
  /\ raised = "FetchError"
  /\ Len(call.urls) = 2
  /\ call.urls[1] # call.urls[2]
  /\ call.urls[1] \in DOMAIN responses
  /\ UpdateError(responses[call.urls[1]]) = "FetchError"
  /\ IsStr(call.urls[2])
  /\ call.urls[2] \notin DOMAIN responses
  /\ call.urls[2] \notin TrackedUrls(items)
====
